---- MODULE Spec2Model ----
(***************************************************************************)
(* A model of hwstat.h: per-thread counters and timers that register with  *)
(* a named GlobalStat<T>, the stopwatch built on the timer, and the timer  *)
(* report.                                                                 *)
(*                                                                         *)
(* Granularity.  Every access to memory another thread can touch is a step *)
(* of its own: taking a mutex, the unlocked read of GlobalStat::agg at the *)
(* head of calcStat, each field an add or a fold writes, each instance a   *)
(* calcStat folds.  The accumulators carry no synchronisation, so a timer  *)
(* add writes its two fields in either order (the build may reorder two    *)
(* independent plain stores) and a reader that runs between the two writes *)
(* sees one of them.  Values are uint64_t in the code; the bounds keep     *)
(* every sum far below 2^64, so no wrap-around is modelled, and deltas are *)
(* non-negative.                                                           *)
(***************************************************************************)
EXTENDS Integers, FiniteSets, Sequences, TLC

\* ---------------------------------------------------------------- bounds
NumThreads == 2
MaxAdds == 2
MaxDelta == 2
MaxTsc == 3

Threads == 1..NumThreads
NoThread == 0
Deltas == 0..MaxDelta
\* Cycle deltas: add()'s default argument 0, and a positive one.
CycleDeltas == {0, 1, MaxDelta}
\* The largest running total a stopwatch is let to reach.
MaxRun == MaxTsc
\* The thread that prints the report.
mainThread == CHOOSE t \in Threads : \A u \in Threads : t <= u

\* ------------------------------------------------- the declared categories
\* COUNTER(reqs) and TIMER(work), each a GlobalStat<T> with its thread_local
\* accumulator per thread; a second COUNTER(reqs) of another translation
\* unit (reqs_b), loaded later if at all; and a user stat STAT(ustat, ...).
Kinds == {"counter", "timer"}
Cats == {"reqs", "reqs_b", "work"}
KindOf(c) == IF c \in {"reqs", "reqs_b"} THEN "counter" ELSE "timer"

\* The directories: GlobalStat<PerThreadCounter>::stats,
\* GlobalStat<PerThreadTimer>::stats and SimpleStat::stats.
DirKinds == Kinds \cup {"user"}
Objs == Cats \cup {"ustat"}
ObjKind(o) == IF o = "ustat" THEN "user" ELSE KindOf(o)

\* const char * values: the null pointer and the addresses of the string
\* literals "", "reqs" (one per translation unit), "ustat" and "work", in
\* address order.
NullName == "nullptr"
EmptyName == ""
AddrOrder == <<"nullptr", "", "reqs", "reqs#b", "ustat", "work">>
Names == {AddrOrder[i] : i \in DOMAIN AddrOrder}
\* The characters a name points to.
Text(n) == IF n = "reqs#b" THEN "reqs" ELSE n

VARIABLES
  mtx,        \* GlobalStat::mtx        [Cats -> Threads \cup {NoThread}]
  instances,  \* GlobalStat::instances  [Cats -> SUBSET Threads]
  agg,        \* GlobalStat::agg        [Cats -> AggregateType]
  gMtx,       \* GlobalStat<T>::gMtx    [Kinds -> Threads \cup {NoThread}]
  stats,      \* GlobalStat<T>::stats   [Kinds -> (name -> category)]
  kFreqGhz,   \* TimerAgg::kFreqGhz, a rational <<num, den>>
  config,     \* the build: [NO_STAT, NDEBUG, TSC_FREQ_GHZ]
  olife,      \* the GlobalStat / SimpleStat objects [Objs -> none/alive/dead]
  oname,      \* their name members             [Objs -> Names]
  life,       \* thread_local storage   [Cats -> [Threads -> none/alive/dead]]
  acc,        \* the accumulators       [Cats -> [Threads -> fields]]
  pc,         \* where each thread is
  cur,        \* the category of the call a thread is in
  pend,       \* fields the running add or fold has still to write
  dc,         \* the argument of the running timer add
  nagg,       \* calcStat's local nagg; at "calc_done", its return value
  todo,       \* calcStat: instances the loop has still to visit
  caller,     \* who called calcStat: "stat" or "print"
  ptodo,      \* printStats: directory keys still to report
  row,        \* printStats: the row last reported
  reported,   \* printStats: per category, the count of the thread's last row
  tsc,        \* the hardware cycle counter
  sw,         \* StopwatchBase: [st, agg] per thread
  swKind,     \* the stopwatch a thread holds: none / plain / scoped
  \* history (not program state)
  issued,     \* per category, what the add calls begun so far add up to
  startTotal, \* issued at the start of the running calcStat
  quiet,      \* no other thread wrote since the running calcStat began
  nfold,      \* how often dereg folded each accumulator into agg
  lastCall,   \* the thread's last stopwatch call since its last direct add
  scopeCnt0,  \* the timer's cnt when the ScopedTimer was constructed
  stopAcc0,   \* the timer accumulator when the running stop() began
  newest      \* per directory, the object constructed last

regVars == <<mtx, instances, agg>>
declVars == <<config, olife, oname, newest>>
dirVars == <<gMtx, stats, kFreqGhz, declVars>>
accVars == <<life, acc>>
callVars == <<cur, pend, dc, nagg, todo, caller>>
printVars == <<ptodo, row, reported>>
swVars == <<tsc, sw, swKind, lastCall, scopeCnt0, stopAcc0>>
histVars == <<issued, startTotal, quiet, nfold>>
vars == <<regVars, dirVars, accVars, pc, callVars, printVars, swVars, histVars>>

\* ------------------------------------------------------------ value types
\* AggregateType{}: uint64_t 0 for a counter, TimerAgg{cnt = 0, cycles = 0}.
ZeroAgg(k) == IF k = "counter" THEN 0 ELSE [cnt |-> 0, cycles |-> 0]

\* The fields of a freshly constructed accumulator.
NewAcc(k) == IF k = "counter" THEN [cnt |-> 0] ELSE [cycles |-> 0, cnt |-> 0]

\* The fields an accumulator of kind k holds, each a separate plain store.
Fields(k) == IF k = "counter" THEN {"cnt"} ELSE {"cycles", "cnt"}

\* An aggregate that drops the instance's contribution.
aggregate_dropped(k, inst, prev) == prev

\* PerThreadCounter::aggregate / PerThreadTimer::aggregate.
aggregate(k, inst, prev) ==
  IF k = "counter"
    THEN prev + inst.cnt
    ELSE [cnt |-> prev.cnt + inst.cnt, cycles |-> prev.cycles + inst.cycles]

\* instances.insert(instance) and instances.erase(instance).
insert(set, instance) == set \cup {instance}

\* An erase that leaves the instance in the set.
erase_skipped(set, instance) == set

erase(set, instance) == set \ {instance}

\* A fold whose store never reaches agg.
StoreAgg_lost(k, old, new, f) == old

\* One field of "agg = instance->aggregate(agg)" reaching memory.
StoreAgg(k, old, new, f) ==
  IF k = "counter" THEN new ELSE [old EXCEPT ![f] = new[f]]

\* An add that assigns cycles instead of accumulating them.
StoreAdd_assign(k, inst, f, d) ==
  IF k = "counter" THEN [inst EXCEPT !.cnt = @ + d]
  ELSE IF f = "cycles" THEN [inst EXCEPT !.cycles = d]
  ELSE [inst EXCEPT !.cnt = @ + 1]

\* One field of add(d) reaching memory: cnt += d for a counter;
\* cycles += dc, then cnt++ for a timer.
StoreAdd(k, inst, f, d) ==
  IF k = "counter" THEN [inst EXCEPT !.cnt = @ + d]
  ELSE IF f = "cycles" THEN [inst EXCEPT !.cycles = @ + d]
  ELSE [inst EXCEPT !.cnt = @ + 1]

\* The fields of a thread that holds no stopwatch (st is unset, agg = 0).
NoStopwatch == [st |-> 0, agg |-> 0]

\* No row printed.
NoRow == [name |-> "none"]

\* The build: NO_STAT and NDEBUG defined or not, TSC_FREQ_GHZ defined as a
\* rational, or undefined (<<>>).
DefaultConfig == [NO_STAT |-> FALSE, NDEBUG |-> FALSE, TSC_FREQ_GHZ |-> <<>>]

\* measure_tsc_ghz: 0.0 under NO_STAT; else the predefined TSC_FREQ_GHZ; else
\* elapsed cycles over elapsed nanoseconds.
measure_tsc_ghz(cfg, start, end, count_ns) ==
  IF cfg.NO_STAT THEN <<0, 1>>
  ELSE IF cfg.TSC_FREQ_GHZ # <<>> THEN cfg.TSC_FREQ_GHZ
  ELSE <<end - start, count_ns>>

\* #_name: the literal a declaration passes as the name.
NameOf(c) == IF c = "reqs_b" THEN "reqs#b" ELSE c

\* The directory of kind k once the objects in built are constructed, each
\* under its own literal.
InitStats(k, built) ==
  [n \in {NameOf(o) : o \in {x \in built : ObjKind(x) = k}} |->
     CHOOSE o \in built : NameOf(o) = n]

\* The objects of the translation unit the program starts with.
Declared == {"reqs", "work"}

\* The state once the static initialisers have run: the categories in built
\* are constructed, kFreqGhz is calibrated, no thread has touched a stat.
Boot(cfg, start, end, count_ns, built) ==
  /\ config = cfg
  /\ olife = [o \in Objs |-> IF o \in built THEN "alive" ELSE "none"]
  /\ oname = [o \in Objs |-> IF o \in built THEN NameOf(o) ELSE NullName]
  /\ newest = [k \in DirKinds |->
                 IF \E o \in built : ObjKind(o) = k
                   THEN CHOOSE o \in built : ObjKind(o) = k ELSE "none"]
  /\ reported = [t \in Threads |-> [c \in Cats |-> 0]]
  /\ mtx = [c \in Cats |-> NoThread]
  /\ instances = [c \in Cats |-> {}]
  /\ agg = [c \in Cats |-> ZeroAgg(KindOf(c))]
  /\ gMtx = [k \in DirKinds |-> NoThread]
  /\ stats = [k \in DirKinds |-> InitStats(k, built)]
  /\ kFreqGhz = measure_tsc_ghz(cfg, start, end, count_ns)
  /\ life = [c \in Cats |-> [t \in Threads |-> "none"]]
  /\ acc = [c \in Cats |-> [t \in Threads |-> NewAcc(KindOf(c))]]
  /\ pc = [t \in Threads |-> "idle"]
  /\ cur = [t \in Threads |-> "none"]
  /\ pend = [t \in Threads |-> {}]
  /\ dc = [t \in Threads |-> 0]
  /\ nagg = [t \in Threads |-> 0]
  /\ todo = [t \in Threads |-> {}]
  /\ caller = [t \in Threads |-> "none"]
  /\ ptodo = [t \in Threads |-> <<>>]
  /\ row = [t \in Threads |-> NoRow]
  /\ tsc = 0
  /\ sw = [t \in Threads |-> NoStopwatch]
  /\ swKind = [t \in Threads |-> "none"]
  /\ issued = [c \in Cats |-> ZeroAgg(KindOf(c))]
  /\ startTotal = [t \in Threads |-> 0]
  /\ quiet = [t \in Threads |-> FALSE]
  /\ nfold = [c \in Cats |-> [t \in Threads |-> 0]]
  /\ lastCall = [t \in Threads |-> "none"]
  /\ scopeCnt0 = [t \in Threads |-> 0]
  /\ stopAcc0 = [t \in Threads |-> NewAcc("timer")]

Init == Boot(DefaultConfig, 0, 20, 10, Declared)

\* A write to shared state by one thread ends the quiet of every calcStat
\* in flight (the writer itself is in none).
Disturbed == [u \in Threads |-> FALSE]

\* ------------------------------------------------ GlobalStat::reg (ctor)
\* PerThreadCounter / PerThreadTimer constructor: fields zeroed, then
\* reg(this) takes the registry mutex.
reg_lock(t, c) ==
  /\ pc[t] = "idle"
  /\ life[c][t] = "none"
  /\ mtx[c] = NoThread
  /\ mtx' = [mtx EXCEPT ![c] = t]
  /\ acc' = [acc EXCEPT ![c][t] = NewAcc(KindOf(c))]
  /\ pc' = [pc EXCEPT ![t] = "reg_insert"]
  /\ cur' = [cur EXCEPT ![t] = c]
  /\ quiet' = Disturbed
  /\ UNCHANGED <<instances, agg, dirVars, life, pend, dc, nagg, todo, caller,
                 printVars, swVars, issued, startTotal, nfold>>

\* instances.insert(instance); the lock_guard releases the mutex.
reg_insert(t) ==
  /\ pc[t] = "reg_insert"
  /\ instances' = [instances EXCEPT ![cur[t]] = insert(@, t)]
  /\ mtx' = [mtx EXCEPT ![cur[t]] = NoThread]
  /\ life' = [life EXCEPT ![cur[t]][t] = "alive"]
  /\ pc' = [pc EXCEPT ![t] = "idle"]
  /\ cur' = [cur EXCEPT ![t] = "none"]
  /\ quiet' = Disturbed
  /\ UNCHANGED <<agg, dirVars, acc, pend, dc, nagg, todo, caller,
                 printVars, swVars, issued, startTotal, nfold>>

\* ---------------------------------------------- GlobalStat::dereg (dtor)
\* The thread exits: the thread_local's destructor calls dereg(this), which
\* takes the registry mutex.  Under the mutex nobody else writes agg, so
\* the value of instance->aggregate(agg) is fixed from here on; it is kept
\* in the temporary the call returns (nagg) until it is stored.
dereg_lock(t, c) ==
  /\ pc[t] \in {"idle", "exiting"}
  /\ life[c][t] = "alive"
  /\ swKind[t] = "none"
  /\ mtx[c] = NoThread
  /\ mtx' = [mtx EXCEPT ![c] = t]
  /\ pc' = [pc EXCEPT ![t] = "dereg_fold"]
  /\ cur' = [cur EXCEPT ![t] = c]
  /\ nagg' = [nagg EXCEPT ![t] = aggregate(KindOf(c), acc[c][t], agg[c])]
  /\ pend' = [pend EXCEPT ![t] = Fields(KindOf(c))]
  /\ quiet' = Disturbed
  /\ UNCHANGED <<instances, agg, dirVars, accVars, dc, todo, caller,
                 printVars, swVars, issued, startTotal, nfold>>

\* agg = instance->aggregate(agg), one field store at a time.
dereg_fold(t) ==
  /\ pc[t] = "dereg_fold"
  /\ \E f \in pend[t] :
       LET c == cur[t]
           k == KindOf(c)
       IN /\ agg' = [agg EXCEPT ![c] = StoreAgg(k, agg[c], nagg[t], f)]
          /\ pend' = [pend EXCEPT ![t] = @ \ {f}]
          /\ nfold' = [nfold EXCEPT ![c][t] =
                         IF pend[t] = Fields(k) THEN @ + 1 ELSE @]
          /\ pc' = [pc EXCEPT ![t] =
                      IF pend[t] = {f} THEN "dereg_erase" ELSE "dereg_fold"]
          /\ nagg' = [nagg EXCEPT ![t] = IF pend[t] = {f} THEN 0 ELSE @]
  /\ quiet' = Disturbed
  /\ UNCHANGED <<mtx, instances, dirVars, accVars, cur, dc, todo, caller,
                 printVars, swVars, issued, startTotal>>

\* instances.erase(instance); the lock_guard releases the mutex; the
\* accumulator's storage is gone.  The thread goes on to its next
\* thread_local, or has exited.
dereg_erase(t) ==
  /\ pc[t] = "dereg_erase"
  /\ instances' = [instances EXCEPT ![cur[t]] = erase(@, t)]
  /\ mtx' = [mtx EXCEPT ![cur[t]] = NoThread]
  /\ life' = [life EXCEPT ![cur[t]][t] = "dead"]
  /\ pc' = [pc EXCEPT ![t] =
              IF \E c \in Cats \ {cur[t]} : life[c][t] = "alive"
                THEN "exiting" ELSE "exited"]
  /\ cur' = [cur EXCEPT ![t] = "none"]
  /\ quiet' = Disturbed
  /\ UNCHANGED <<agg, dirVars, acc, pend, dc, nagg, todo, caller,
                 printVars, swVars, issued, startTotal, nfold>>

\* What the run has added so far: the counter's total and the timer's calls.
\* MaxAdds bounds it.
Added == issued["reqs"] + issued["reqs_b"] + issued["work"].cnt

\* ------------------------------------------------------ PerThreadCounter
\* A counter that adds into the registry's shared aggregate under its mutex.
CounterStore_shared(t, c, d) ==
  /\ pc[t] = "idle"
  /\ KindOf(c) = "counter"
  /\ life[c][t] = "alive"
  /\ Added + d <= MaxAdds
  /\ mtx[c] = NoThread
  /\ agg' = [agg EXCEPT ![c] = @ + d]
  /\ issued' = [issued EXCEPT ![c] = @ + d]
  /\ quiet' = Disturbed
  /\ UNCHANGED <<mtx, instances, dirVars, accVars, pc, callVars, printVars,
                 swVars, startTotal, nfold>>

\* cnt += d on the caller's own accumulator: one plain store, no lock.
CounterStore(t, c, d) ==
  /\ pc[t] = "idle"
  /\ KindOf(c) = "counter"
  /\ life[c][t] = "alive"
  /\ Added + d <= MaxAdds
  /\ acc' = [acc EXCEPT ![c][t] = StoreAdd("counter", @, "cnt", d)]
  /\ issued' = [issued EXCEPT ![c] = @ + d]
  /\ quiet' = Disturbed
  /\ UNCHANGED <<regVars, dirVars, life, pc, callVars, printVars, swVars,
                 startTotal, nfold>>

\* void add(int d = 1) { cnt += d; }
Counter_add(t, c, d) == CounterStore(t, c, d)

\* uint64_t operator++() { return ++cnt; }
Counter_preinc(t, c) == CounterStore(t, c, 1)

\* uint64_t operator++(int) { return cnt++; }
Counter_postinc(t, c) == CounterStore(t, c, 1)

\* uint64_t operator+=(uint64_t d) { return cnt += d; }
Counter_pluseq(t, c, d) == CounterStore(t, c, d)

\* -------------------------------------------------------- PerThreadTimer
\* add(dc): cycles += dc; cnt++.  Two plain stores to the caller's own
\* accumulator, no lock; this step is whichever store reaches memory first.
Timer_add(t, c, d) ==
  /\ pc[t] = "idle"
  /\ KindOf(c) = "timer"
  /\ life[c][t] = "alive"
  /\ swKind[t] = "none"
  /\ Added < MaxAdds
  /\ \E f \in Fields("timer") :
       /\ acc' = [acc EXCEPT ![c][t] = StoreAdd("timer", @, f, d)]
       /\ pend' = [pend EXCEPT ![t] = Fields("timer") \ {f}]
  /\ issued' = [issued EXCEPT ![c] = [cnt |-> @.cnt + 1, cycles |-> @.cycles + d]]
  /\ dc' = [dc EXCEPT ![t] = d]
  /\ cur' = [cur EXCEPT ![t] = c]
  /\ pc' = [pc EXCEPT ![t] = "add"]
  /\ lastCall' = [lastCall EXCEPT ![t] = "none"]
  /\ scopeCnt0' = [scopeCnt0 EXCEPT ![t] = 0]
  /\ quiet' = Disturbed
  /\ UNCHANGED <<regVars, dirVars, life, nagg, todo, caller, printVars,
                 tsc, sw, swKind, stopAcc0, startTotal, nfold>>

\* The other store of add(dc), and the return.
Timer_add_finish(t) ==
  /\ pc[t] = "add"
  /\ \E f \in pend[t] :
       acc' = [acc EXCEPT ![cur[t]][t] = StoreAdd("timer", @, f, dc[t])]
  /\ pend' = [pend EXCEPT ![t] = {}]
  /\ dc' = [dc EXCEPT ![t] = 0]
  /\ cur' = [cur EXCEPT ![t] = "none"]
  /\ pc' = [pc EXCEPT ![t] = "idle"]
  /\ quiet' = Disturbed
  /\ UNCHANGED <<regVars, dirVars, life, nagg, todo, caller, printVars,
                 swVars, issued, startTotal, nfold>>

\* -------------------------------------------------- GlobalStat::calcStat
\* Who is in a call that writes registry or accumulator state.
Writing(u) == pc[u] \in {"reg_insert", "dereg_fold", "dereg_erase", "add",
                         "stop_add"}

\* auto nagg = agg;  -- read before the lock_guard is constructed.
calcStat_read(t, c, who) ==
  /\ nagg' = [nagg EXCEPT ![t] = agg[c]]
  /\ cur' = [cur EXCEPT ![t] = c]
  /\ caller' = [caller EXCEPT ![t] = who]
  /\ pc' = [pc EXCEPT ![t] = "calc_lock"]
  /\ startTotal' = [startTotal EXCEPT ![t] = issued[c]]
  /\ quiet' = [quiet EXCEPT ![t] = \A u \in Threads \ {t} : ~Writing(u)]
  /\ UNCHANGED <<regVars, dirVars, accVars, pend, dc, todo, swVars,
                 issued, nfold>>

\* A calcStat that walks the live set without waiting for the mutex.
calcStat_lock_barging(t) ==
  /\ pc[t] = "calc_lock"
  /\ mtx' = [mtx EXCEPT ![cur[t]] = t]
  /\ todo' = [todo EXCEPT ![t] = instances[cur[t]]]
  /\ pc' = [pc EXCEPT ![t] = "calc_iter"]
  /\ UNCHANGED <<instances, agg, dirVars, accVars, cur, pend, dc, nagg,
                 caller, printVars, swVars, histVars>>

\* std::lock_guard<std::mutex> guard(mtx); the loop starts over instances.
calcStat_lock(t) ==
  /\ pc[t] = "calc_lock"
  /\ mtx[cur[t]] = NoThread
  /\ mtx' = [mtx EXCEPT ![cur[t]] = t]
  /\ todo' = [todo EXCEPT ![t] = instances[cur[t]]]
  /\ pc' = [pc EXCEPT ![t] = "calc_iter"]
  /\ UNCHANGED <<instances, agg, dirVars, accVars, cur, pend, dc, nagg,
                 caller, printVars, swVars, histVars>>

\* nagg = i->aggregate(nagg) for the next instance of the set.  The set is
\* ordered by address; any order is allowed here.
calcStat_iter(t) ==
  /\ pc[t] = "calc_iter"
  /\ \E i \in todo[t] :
       /\ nagg' = [nagg EXCEPT ![t] =
                     aggregate(KindOf(cur[t]), acc[cur[t]][i], @)]
       /\ todo' = [todo EXCEPT ![t] = @ \ {i}]
  /\ UNCHANGED <<regVars, dirVars, accVars, pc, cur, pend, dc, caller,
                 printVars, swVars, histVars>>

\* A calcStat that returns with the mutex still locked.
calcStat_return_locked(t) ==
  /\ pc[t] = "calc_iter"
  /\ todo[t] = {}
  /\ pc' = [pc EXCEPT ![t] = "calc_done"]
  /\ UNCHANGED <<regVars, dirVars, accVars, callVars, printVars,
                 swVars, histVars>>

\* return nagg; the lock_guard releases the mutex.
calcStat_return(t) ==
  /\ pc[t] = "calc_iter"
  /\ todo[t] = {}
  /\ mtx' = [mtx EXCEPT ![cur[t]] = NoThread]
  /\ pc' = [pc EXCEPT ![t] = "calc_done"]
  /\ UNCHANGED <<instances, agg, dirVars, accVars, callVars, printVars,
                 swVars, histVars>>

\* AggregateType stat() { return global->calcStat(); } on the caller's own
\* accumulator.
stat(t, c) ==
  /\ pc[t] = "idle"
  /\ life[c][t] = "alive"
  /\ calcStat_read(t, c, "stat")
  /\ UNCHANGED printVars

\* calcStat() called on the category itself, by a thread with or without an
\* accumulator of its own.
calcStat(t, c) ==
  /\ pc[t] = "idle"
  /\ calcStat_read(t, c, "stat")
  /\ UNCHANGED printVars

\* The caller of stat() or calcStat() has its value.
stat_return(t) ==
  /\ pc[t] = "calc_done"
  /\ caller[t] = "stat"
  /\ pc' = [pc EXCEPT ![t] = "idle"]
  /\ cur' = [cur EXCEPT ![t] = "none"]
  /\ nagg' = [nagg EXCEPT ![t] = 0]
  /\ caller' = [caller EXCEPT ![t] = "none"]
  /\ startTotal' = [startTotal EXCEPT ![t] = 0]
  /\ quiet' = [quiet EXCEPT ![t] = FALSE]
  /\ UNCHANGED <<regVars, dirVars, accVars, pend, dc, todo, printVars,
                 swVars, issued, nfold>>

\* ---------------------------------------------------------------- TimerAgg
\* A double is kept as the exact rational <<numerator, denominator>>; a zero
\* denominator is the inf/nan a floating-point division by zero yields.
\* double getNanos() const { return cycles / kFreqGhz; }
getNanos(a) == <<a.cycles * kFreqGhz[2], kFreqGhz[1]>>

\* uint64_t getAvgCycles() const { return cycles / cnt; }  An integer division
\* by zero is undefined; the build traps (SIGFPE).
getAvgCycles(a) ==
  IF a.cnt = 0 THEN [tag |-> "SIGFPE"] ELSE [tag |-> "value", val |-> a.cycles \div a.cnt]

\* double getAvgNanos() const { return getNanos() / cnt; }
getAvgNanos(a) == [tag |-> "value", val |-> <<getNanos(a)[1], getNanos(a)[2] * a.cnt>>]

NotApplicable == [tag |-> "N/A"]

\* ------------------------------------------------- GlobalStat::printStats
\* The row printStats logs for one category, from the aggregate calcStat
\* returned (formatting apart).
avg_guard(a) == a.cycles = 0

TimerRow(c, a) ==
  [name |-> c, tot_nanos |-> getNanos(a), cnt |-> a.cnt,
   avg_nanos |-> IF avg_guard(a) THEN NotApplicable ELSE getAvgNanos(a),
   avg_cycles |-> IF avg_guard(a) THEN NotApplicable ELSE getAvgCycles(a)]

CounterRow(c, a) == [name |-> c, count |-> a]

\* The address order of the keys (std::map<const char *, ...>).
Addr(n) == CHOOSE i \in DOMAIN AddrOrder : AddrOrder[i] = n

\* The directory's entries in iteration order.
Entries(m) ==
  LET n == Cardinality(DOMAIN m)
      keys == CHOOSE s \in [1..n -> DOMAIN m] :
                \A i, j \in 1..n : i < j => Addr(s[i]) < Addr(s[j])
  IN [i \in 1..n |-> <<keys[i], m[keys[i]]>>]

\* printStats: stats.size() == 0 logs "NO TIMERS" / "NO COUNTERS"; otherwise
\* the header, and the loop over stats starts.  The directory is read
\* without gMtx.
printStats_begin(t, k) ==
  /\ pc[t] = "idle"
  /\ IF DOMAIN stats[k] = {}
       THEN /\ row' = [row EXCEPT ![t] = [name |-> "NO STATS"]]
            /\ UNCHANGED <<pc, ptodo>>
       ELSE /\ ptodo' = [ptodo EXCEPT ![t] = Entries(stats[k])]
            /\ pc' = [pc EXCEPT ![t] = "print_next"]
            /\ row' = [row EXCEPT ![t] = NoRow]
  /\ UNCHANGED <<regVars, dirVars, accVars, callVars, swVars, histVars,
                 reported>>

\* The next kv of the loop: kv.second->calcStat() begins.
printStats_next(t) ==
  /\ pc[t] = "print_next"
  /\ ptodo[t] # <<>>
  /\ calcStat_read(t, Head(ptodo[t])[2], "print")
  /\ ptodo' = [ptodo EXCEPT ![t] = Tail(@)]
  /\ UNCHANGED <<row, reported>>

\* calcStat returned: the row is computed and logged.
printStats_row(t) ==
  /\ pc[t] = "calc_done"
  /\ caller[t] = "print"
  /\ row' = [row EXCEPT ![t] =
               IF KindOf(cur[t]) = "timer" THEN TimerRow(cur[t], nagg[t])
                                           ELSE CounterRow(cur[t], nagg[t])]
  /\ reported' = [reported EXCEPT ![t][cur[t]] =
                    IF KindOf(cur[t]) = "counter" THEN nagg[t] ELSE @]
  /\ pc' = [pc EXCEPT ![t] = "print_next"]
  /\ cur' = [cur EXCEPT ![t] = "none"]
  /\ nagg' = [nagg EXCEPT ![t] = 0]
  /\ caller' = [caller EXCEPT ![t] = "none"]
  /\ startTotal' = [startTotal EXCEPT ![t] = 0]
  /\ quiet' = [quiet EXCEPT ![t] = FALSE]
  /\ UNCHANGED <<regVars, dirVars, accVars, pend, dc, todo, ptodo,
                 swVars, issued, nfold>>

\* The loop is over; printStats returns.
printStats_end(t) ==
  /\ pc[t] = "print_next"
  /\ ptodo[t] = <<>>
  /\ pc' = [pc EXCEPT ![t] = "idle"]
  /\ row' = [row EXCEPT ![t] = NoRow]
  /\ UNCHANGED <<regVars, dirVars, accVars, callVars, ptodo, swVars, histVars,
                 reported>>

\* The entry the loop is about to visit has been erased from the directory
\* since the loop began.  printStats holds no lock, so the loop's iterator
\* then points into a freed map node: the loop may still visit the entry
\* (printStats_next), pass over it, or fault.
Erased(t) ==
  /\ pc[t] = "print_next"
  /\ ptodo[t] # <<>>
  /\ LET n == Head(ptodo[t])[1]
         o == Head(ptodo[t])[2]
     IN IF n \in DOMAIN stats[ObjKind(o)] THEN stats[ObjKind(o)][n] # o
                                            ELSE TRUE

\* The loop passes over the erased entry.
printStats_skip(t) ==
  /\ Erased(t)
  /\ ptodo' = [ptodo EXCEPT ![t] = Tail(@)]
  /\ UNCHANGED <<regVars, dirVars, accVars, pc, callVars, row, reported,
                 swVars, histVars>>

\* The loop follows a dangling pointer and the process dies.
printStats_fault(t) ==
  /\ Erased(t)
  /\ pc' = [pc EXCEPT ![t] = "aborted"]
  /\ ptodo' = [ptodo EXCEPT ![t] = <<>>]
  /\ UNCHANGED <<regVars, dirVars, accVars, cur, pend, dc, nagg, todo, caller,
                 row, reported, swVars, histVars>>

\* ------------------------------------------------- RdtscTimerFunc, time
\* timer_func(): the cycle counter's current value.
timer_func == tsc

\* Cycles pass.
Tick ==
  /\ tsc < MaxTsc
  /\ tsc' = tsc + 1
  /\ UNCHANGED <<regVars, dirVars, accVars, pc, callVars, printVars, sw, swKind,
                 lastCall, scopeCnt0, stopAcc0, histVars>>

\* ---------------------------------------------------------- StopwatchBase
\* The stopwatch of thread t runs on the thread's own TIMER(work) accumulator.
SwTimer == "work"

\* void resume() { st = timer_func(); }
resume_body(w) == [w EXCEPT !.st = timer_func]

\* A pause that overwrites the running total.
pause_body_assign(w) == [w EXCEPT !.agg = timer_func - w.st]

\* void pause() { agg += timer_func() - st; }
pause_body(w) == [w EXCEPT !.agg = @ + (timer_func - w.st)]

\* StopwatchBase(TimerType &timer) : timer(timer), timer_func{} { restart(); }
\* with agg = 0 from its member initialiser.
Stopwatch_ctor(t) ==
  /\ pc[t] = "idle"
  /\ life[SwTimer][t] = "alive"
  /\ swKind[t] = "none"
  /\ swKind' = [swKind EXCEPT ![t] = "plain"]
  /\ sw' = [sw EXCEPT ![t] = resume_body(NoStopwatch)]
  /\ lastCall' = [lastCall EXCEPT ![t] = "ctor"]
  /\ scopeCnt0' = [scopeCnt0 EXCEPT ![t] = 0]
  /\ UNCHANGED <<regVars, dirVars, accVars, pc, callVars, printVars, tsc,
                 stopAcc0, histVars>>

Stopwatch_pause(t) ==
  /\ pc[t] = "idle"
  /\ swKind[t] = "plain"
  /\ pause_body(sw[t]).agg <= MaxRun
  /\ sw' = [sw EXCEPT ![t] = pause_body(@)]
  /\ lastCall' = [lastCall EXCEPT ![t] = "pause"]
  /\ UNCHANGED <<regVars, dirVars, accVars, pc, callVars, printVars, tsc,
                 swKind, scopeCnt0, stopAcc0, histVars>>

Stopwatch_resume(t) ==
  /\ pc[t] = "idle"
  /\ swKind[t] = "plain"
  /\ sw' = [sw EXCEPT ![t] = resume_body(@)]
  /\ lastCall' = [lastCall EXCEPT ![t] = "resume"]
  /\ UNCHANGED <<regVars, dirVars, accVars, pc, callVars, printVars, tsc,
                 swKind, scopeCnt0, stopAcc0, histVars>>

\* void restart() { resume(); }
Stopwatch_restart(t) ==
  /\ pc[t] = "idle"
  /\ swKind[t] = "plain"
  /\ sw' = [sw EXCEPT ![t] = resume_body(@)]
  /\ lastCall' = [lastCall EXCEPT ![t] = "restart"]
  /\ UNCHANGED <<regVars, dirVars, accVars, pc, callVars, printVars, tsc,
                 swKind, scopeCnt0, stopAcc0, histVars>>

\* stop(): pause(); timer.add(agg) begins -- the first of add's two stores.
stop_begin(t) ==
  /\ pc[t] = "idle"
  /\ Added < MaxAdds
  /\ pause_body(sw[t]).agg <= MaxRun
  /\ sw' = [sw EXCEPT ![t] = pause_body(@)]
  /\ dc' = [dc EXCEPT ![t] = pause_body(sw[t]).agg]
  /\ \E f \in Fields("timer") :
       /\ acc' = [acc EXCEPT ![SwTimer][t] =
                    StoreAdd("timer", @, f, pause_body(sw[t]).agg)]
       /\ pend' = [pend EXCEPT ![t] = Fields("timer") \ {f}]
  /\ issued' = [issued EXCEPT ![SwTimer] =
                  [cnt |-> @.cnt + 1, cycles |-> @.cycles + pause_body(sw[t]).agg]]
  /\ cur' = [cur EXCEPT ![t] = SwTimer]
  /\ pc' = [pc EXCEPT ![t] = "stop_add"]
  /\ stopAcc0' = [stopAcc0 EXCEPT ![t] = acc[SwTimer][t]]
  /\ quiet' = Disturbed
  /\ UNCHANGED <<regVars, dirVars, life, nagg, todo, caller, printVars, tsc,
                 swKind, scopeCnt0, startTotal, nfold>>

Stopwatch_stop(t) ==
  /\ swKind[t] = "plain"
  /\ stop_begin(t)
  /\ UNCHANGED lastCall

\* The rest of stop(): add's other store, then agg = 0.  A ScopedTimer's
\* destructor ends here and the stopwatch is gone.
stop_finish(t) ==
  /\ pc[t] = "stop_add"
  /\ \E f \in pend[t] :
       acc' = [acc EXCEPT ![cur[t]][t] = StoreAdd("timer", @, f, dc[t])]
  /\ pend' = [pend EXCEPT ![t] = {}]
  /\ dc' = [dc EXCEPT ![t] = 0]
  /\ cur' = [cur EXCEPT ![t] = "none"]
  /\ pc' = [pc EXCEPT ![t] = "idle"]
  /\ sw' = [sw EXCEPT ![t] = IF swKind[t] = "scoped" THEN NoStopwatch
                                                       ELSE [@ EXCEPT !.agg = 0]]
  /\ swKind' = [swKind EXCEPT ![t] = IF @ = "scoped" THEN "none" ELSE @]
  /\ stopAcc0' = [stopAcc0 EXCEPT ![t] = NewAcc("timer")]
  /\ lastCall' = [lastCall EXCEPT ![t] = IF swKind[t] = "plain" THEN "stop" ELSE @]
  /\ quiet' = Disturbed
  /\ UNCHANGED <<regVars, dirVars, life, nagg, todo, caller, printVars, tsc,
                 scopeCnt0, issued, startTotal, nfold>>

\* The stopwatch leaves its scope; its destructor does nothing.
Stopwatch_dtor(t) ==
  /\ pc[t] = "idle"
  /\ swKind[t] = "plain"
  /\ swKind' = [swKind EXCEPT ![t] = "none"]
  /\ sw' = [sw EXCEPT ![t] = NoStopwatch]
  /\ lastCall' = [lastCall EXCEPT ![t] = "none"]
  /\ UNCHANGED <<regVars, dirVars, accVars, pc, callVars, printVars, tsc,
                 scopeCnt0, stopAcc0, histVars>>

\* ------------------------------------------------------------ ScopedTimer
\* The ways control leaves the measured scope; each runs the destructor.
\* The measured scope itself makes no call on the timer.
ExitPaths == {"normal", "early", "error"}

\* ScopedTimer(TimerType &timer) : sw(timer) {}
ScopedTimer_ctor(t) ==
  /\ pc[t] = "idle"
  /\ life[SwTimer][t] = "alive"
  /\ swKind[t] = "none"
  /\ swKind' = [swKind EXCEPT ![t] = "scoped"]
  /\ sw' = [sw EXCEPT ![t] = resume_body(NoStopwatch)]
  /\ lastCall' = [lastCall EXCEPT ![t] = "scoped"]
  /\ scopeCnt0' = [scopeCnt0 EXCEPT ![t] = acc[SwTimer][t].cnt]
  /\ UNCHANGED <<regVars, dirVars, accVars, pc, callVars, printVars, tsc,
                 stopAcc0, histVars>>

\* A destructor that destroys the stopwatch without stop().
ScopedTimer_dtor_forgets(t, path) ==
  /\ pc[t] = "idle"
  /\ swKind[t] = "scoped"
  /\ swKind' = [swKind EXCEPT ![t] = "none"]
  /\ sw' = [sw EXCEPT ![t] = NoStopwatch]
  /\ lastCall' = [lastCall EXCEPT ![t] = path]
  /\ UNCHANGED <<regVars, dirVars, accVars, pc, callVars, printVars, tsc,
                 scopeCnt0, stopAcc0, histVars>>

\* ~ScopedTimer() { sw.stop(); }
ScopedTimer_dtor(t, path) ==
  /\ swKind[t] = "scoped"
  /\ stop_begin(t)
  /\ lastCall' = [lastCall EXCEPT ![t] = path]

\* ------------------------------- GlobalStat / SimpleStat: the directory
\* stats.emplace(name, this) / stats.insert({name, this}): the map compares
\* the pointers; an equal key already present stays as it is.
stats_emplace(m, name, this) ==
  IF name \in DOMAIN m THEN m
  ELSE [x \in DOMAIN m \cup {name} |-> IF x = name THEN this ELSE m[x]]

\* stats.erase(name)
stats_erase(m, name) == [x \in DOMAIN m \ {name} |-> m[x]]

\* The names a declaration of o can pass: its literal, which the linker may
\* or may not merge with an equal literal of another translation unit, or
\* by mistake the empty string or a null pointer.
NamesFor(o) == {n \in Names : Text(n) = Text(NameOf(o))} \cup {NullName, EmptyName}

\* assert(name) failed: the process is gone.
Running == \A t \in Threads : pc[t] # "aborted"

\* GlobalStat(name, desc) / SimpleStat(name, cb, desc): the members are
\* initialised; GlobalStat asserts name unless NDEBUG; the lock_guard takes
\* gMtx.
ctor_lock(t, o, n) ==
  /\ Running
  /\ pc[t] = "idle"
  /\ olife[o] \in {"none", "dead"}
  /\ oname' = [oname EXCEPT ![o] = n]
  /\ IF ObjKind(o) # "user" /\ ~config.NDEBUG /\ n = NullName
       THEN /\ pc' = [pc EXCEPT ![t] = "aborted"]
            /\ UNCHANGED <<gMtx, cur>>
       ELSE /\ gMtx[ObjKind(o)] = NoThread
            /\ gMtx' = [gMtx EXCEPT ![ObjKind(o)] = t]
            /\ pc' = [pc EXCEPT ![t] = "ctor_emplace"]
            /\ cur' = [cur EXCEPT ![t] = o]
  /\ UNCHANGED <<regVars, stats, kFreqGhz, config, olife, newest, accVars,
                 pend, dc, nagg, todo, caller, printVars, swVars, histVars>>

\* stats.emplace(name, this); the lock_guard releases gMtx; the object is
\* constructed.
ctor_emplace(t) ==
  /\ pc[t] = "ctor_emplace"
  /\ LET o == cur[t]
         k == ObjKind(o)
     IN /\ stats' = [stats EXCEPT ![k] = stats_emplace(@, oname[o], o)]
        /\ gMtx' = [gMtx EXCEPT ![k] = NoThread]
        /\ olife' = [olife EXCEPT ![o] = "alive"]
        /\ newest' = [newest EXCEPT ![k] = o]
  /\ pc' = [pc EXCEPT ![t] = "idle"]
  /\ cur' = [cur EXCEPT ![t] = "none"]
  /\ UNCHANGED <<regVars, kFreqGhz, config, oname, accVars, pend, dc, nagg,
                 todo, caller, printVars, swVars, histVars>>

\* ~GlobalStat() / ~SimpleStat(): the lock_guard takes gMtx.
dtor_lock(t, o) ==
  /\ Running
  /\ pc[t] = "idle"
  /\ olife[o] = "alive"
  /\ gMtx[ObjKind(o)] = NoThread
  /\ gMtx' = [gMtx EXCEPT ![ObjKind(o)] = t]
  /\ pc' = [pc EXCEPT ![t] = "dtor_erase"]
  /\ cur' = [cur EXCEPT ![t] = o]
  /\ UNCHANGED <<regVars, stats, kFreqGhz, declVars, accVars, pend, dc, nagg,
                 todo, caller, printVars, swVars, histVars>>

\* stats.erase(name); the lock_guard releases gMtx; the object is gone.
dtor_erase(t) ==
  /\ pc[t] = "dtor_erase"
  /\ LET o == cur[t]
         k == ObjKind(o)
     IN /\ stats' = [stats EXCEPT ![k] = stats_erase(@, oname[o])]
        /\ gMtx' = [gMtx EXCEPT ![k] = NoThread]
        /\ olife' = [olife EXCEPT ![o] = "dead"]
        /\ oname' = [oname EXCEPT ![o] = NullName]
  /\ pc' = [pc EXCEPT ![t] = "idle"]
  /\ cur' = [cur EXCEPT ![t] = "none"]
  /\ UNCHANGED <<regVars, kFreqGhz, config, newest, accVars, pend, dc,
                 nagg, todo, caller, printVars, swVars, histVars>>

\* ------------------------------------------------- the NO_STAT build
\* CounterType = NoopCounter, TimerType = NoopTimer, Stopwatch =
\* NoopStopwatch.  The macros still construct the GlobalStat objects.
\* A constructor that registers the accumulator all the same.
Noop_ctor_registers(t, c) ==
  /\ config.NO_STAT
  /\ pc[t] = "idle"
  /\ life[c][t] = "none"
  /\ life' = [life EXCEPT ![c][t] = "alive"]
  /\ instances' = [instances EXCEPT ![c] = insert(@, t)]
  /\ UNCHANGED <<mtx, agg, dirVars, acc, pc, callVars, printVars, swVars,
                 histVars>>

\* NoopCounter(GlobalCounter *) {} and NoopTimer(GlobalTimer *) {}: the
\* thread_local comes to exist; nothing is registered.
Noop_ctor(t, c) ==
  /\ config.NO_STAT
  /\ pc[t] = "idle"
  /\ life[c][t] = "none"
  /\ life' = [life EXCEPT ![c][t] = "alive"]
  /\ UNCHANGED <<regVars, dirVars, acc, pc, callVars, printVars, swVars,
                 histVars>>

\* ~NoopCounter() {} and ~NoopTimer() {} as the thread exits.
Noop_dtor(t, c) ==
  /\ config.NO_STAT
  /\ pc[t] \in {"idle", "exiting"}
  /\ life[c][t] = "alive"
  /\ swKind[t] = "none"
  /\ life' = [life EXCEPT ![c][t] = "dead"]
  /\ pc' = [pc EXCEPT ![t] =
              IF \E x \in Cats \ {c} : life[x][t] = "alive"
                THEN "exiting" ELSE "exited"]
  /\ UNCHANGED <<regVars, dirVars, acc, callVars, printVars, swVars, histVars>>

\* NoopCounter::add / operator++ / operator+= and NoopTimer::add: empty
\* bodies.  Only the history of calls grows.
Noop_add(t, c, d) ==
  /\ config.NO_STAT
  /\ pc[t] = "idle"
  /\ life[c][t] = "alive"
  /\ Added + (IF KindOf(c) = "counter" THEN d ELSE 1) <= MaxAdds
  /\ issued' = [issued EXCEPT ![c] =
                  IF KindOf(c) = "counter" THEN @ + d
                  ELSE [cnt |-> @.cnt + 1, cycles |-> @.cycles + d]]
  /\ UNCHANGED <<regVars, dirVars, accVars, pc, callVars, printVars, swVars,
                 startTotal, quiet, nfold>>

NoopCounter_add(t, c, d) == KindOf(c) = "counter" /\ Noop_add(t, c, d)
NoopCounter_preinc(t, c) == KindOf(c) = "counter" /\ Noop_add(t, c, 1)
NoopCounter_postinc(t, c) == KindOf(c) = "counter" /\ Noop_add(t, c, 1)
NoopCounter_pluseq(t, c, d) == KindOf(c) = "counter" /\ Noop_add(t, c, d)
NoopTimer_add(t, c, d) == KindOf(c) = "timer" /\ Noop_add(t, c, d)

\* AggregateType stat() { return AggregateType{}; }
Noop_stat(t, c) ==
  /\ config.NO_STAT
  /\ pc[t] = "idle"
  /\ life[c][t] = "alive"
  /\ nagg' = [nagg EXCEPT ![t] = ZeroAgg(KindOf(c))]
  /\ cur' = [cur EXCEPT ![t] = c]
  /\ caller' = [caller EXCEPT ![t] = "stat"]
  /\ pc' = [pc EXCEPT ![t] = "calc_done"]
  /\ UNCHANGED <<regVars, dirVars, accVars, pend, dc, todo, printVars, swVars,
                 histVars>>

\* GlobalStat<NoopTimer>::printStats() {} and
\* GlobalStat<NoopCounter>::printStats() {}.
Noop_printStats(t, k) ==
  /\ config.NO_STAT
  /\ pc[t] = "idle"
  /\ UNCHANGED vars

\* NoopStopwatch: constructor, pause, resume, restart and stop have empty
\* bodies; call is the member called.
NoopStopwatch_ctor(t) ==
  /\ config.NO_STAT
  /\ pc[t] = "idle"
  /\ swKind[t] = "none"
  /\ life[SwTimer][t] = "alive"
  /\ swKind' = [swKind EXCEPT ![t] = "plain"]
  /\ lastCall' = [lastCall EXCEPT ![t] = "ctor"]
  /\ UNCHANGED <<regVars, dirVars, accVars, pc, callVars, printVars, tsc, sw,
                 scopeCnt0, stopAcc0, histVars>>

NoopStopwatch_call(t, call) ==
  /\ config.NO_STAT
  /\ pc[t] = "idle"
  /\ swKind[t] = "plain"
  /\ lastCall' = [lastCall EXCEPT ![t] = call]
  /\ UNCHANGED <<regVars, dirVars, accVars, pc, callVars, printVars, tsc, sw,
                 swKind, scopeCnt0, stopAcc0, histVars>>

NoopStopwatch_pause(t) == NoopStopwatch_call(t, "pause")
NoopStopwatch_resume(t) == NoopStopwatch_call(t, "resume")
NoopStopwatch_restart(t) == NoopStopwatch_call(t, "restart")
NoopStopwatch_stop(t) == NoopStopwatch_call(t, "stop")

NoopStopwatch_dtor(t) ==
  /\ config.NO_STAT
  /\ pc[t] = "idle"
  /\ swKind[t] = "plain"
  /\ swKind' = [swKind EXCEPT ![t] = "none"]
  /\ lastCall' = [lastCall EXCEPT ![t] = "none"]
  /\ UNCHANGED <<regVars, dirVars, accVars, pc, callVars, printVars, tsc, sw,
                 scopeCnt0, stopAcc0, histVars>>

\* ScopedTimer over a NoopStopwatch: sw(timer) at construction, sw.stop() at
\* destruction.
NoopScopedTimer_ctor(t) ==
  /\ config.NO_STAT
  /\ pc[t] = "idle"
  /\ swKind[t] = "none"
  /\ life[SwTimer][t] = "alive"
  /\ swKind' = [swKind EXCEPT ![t] = "scoped"]
  /\ lastCall' = [lastCall EXCEPT ![t] = "scoped"]
  /\ UNCHANGED <<regVars, dirVars, accVars, pc, callVars, printVars, tsc, sw,
                 scopeCnt0, stopAcc0, histVars>>

NoopScopedTimer_dtor(t, path) ==
  /\ config.NO_STAT
  /\ pc[t] = "idle"
  /\ swKind[t] = "scoped"
  /\ swKind' = [swKind EXCEPT ![t] = "none"]
  /\ lastCall' = [lastCall EXCEPT ![t] = path]
  /\ UNCHANGED <<regVars, dirVars, accVars, pc, callVars, printVars, tsc, sw,
                 scopeCnt0, stopAcc0, histVars>>

\* ------------------------------------------------------- specifications
Registry(t, c) ==
  \/ reg_lock(t, c)
  \/ reg_insert(t)
  \/ dereg_lock(t, c)
  \/ dereg_fold(t)
  \/ dereg_erase(t)
  \/ calcStat_lock(t)
  \/ calcStat_iter(t)
  \/ calcStat_return(t)

\* Threads that count on COUNTER(reqs) and read its total.
NextCounter ==
  \E t \in Threads :
    \/ Registry(t, "reqs")
    \/ \E d \in Deltas : Counter_add(t, "reqs", d)
    \/ Counter_preinc(t, "reqs")
    \/ Counter_postinc(t, "reqs")
    \/ \E d \in Deltas : Counter_pluseq(t, "reqs", d)
    \/ stat(t, "reqs")
    \/ calcStat(t, "reqs")
    \/ stat_return(t)

SpecCounter == Init /\ [][NextCounter]_vars

\* Threads that time on TIMER(work) and print the timer report.
NextTimer ==
  \E t \in Threads :
    \/ Registry(t, "work")
    \/ \E d \in CycleDeltas : Timer_add(t, "work", d)
    \/ Timer_add_finish(t)
    \/ (t = mainThread /\ printStats_begin(t, "timer"))
    \/ printStats_next(t)
    \/ printStats_row(t)
    \/ printStats_end(t)

SpecTimer == Init /\ [][NextTimer]_vars

\* The main thread times scopes on TIMER(work) with a stopwatch while the
\* other threads count on COUNTER(reqs).
NextStopwatch ==
  \/ Tick
  \/ \E t \in Threads \ {mainThread} :
       \/ reg_lock(t, "reqs")
       \/ \E d \in Deltas : Counter_add(t, "reqs", d)
       \/ Counter_preinc(t, "reqs")
       \/ Counter_postinc(t, "reqs")
       \/ \E d \in Deltas : Counter_pluseq(t, "reqs", d)
  \/ \E t \in Threads :
       \/ reg_insert(t)
       \/ dereg_fold(t)
       \/ dereg_erase(t)
  \/ \E t \in {mainThread} :
       \/ reg_lock(t, SwTimer)
       \/ dereg_lock(t, SwTimer)
       \/ \E d \in CycleDeltas : Timer_add(t, SwTimer, d)
       \/ Timer_add_finish(t)
       \/ Stopwatch_ctor(t)
       \/ Stopwatch_pause(t)
       \/ Stopwatch_resume(t)
       \/ Stopwatch_restart(t)
       \/ Stopwatch_stop(t)
       \/ stop_finish(t)
       \/ Stopwatch_dtor(t)
       \/ ScopedTimer_ctor(t)
       \/ \E path \in ExitPaths : ScopedTimer_dtor(t, path)

SpecStopwatch == Init /\ [][NextStopwatch]_vars

\* The NO_STAT build: the main thread uses the no-op timer and stopwatch,
\* asks the categories for totals and prints the (empty) reports; the other
\* threads use the no-op counter.
InitNoStat == Boot([DefaultConfig EXCEPT !.NO_STAT = TRUE], 0, 20, 10, Declared)

NextNoStat ==
  \/ \E t \in Threads \ {mainThread} :
       \/ Noop_ctor(t, "reqs")
       \/ Noop_dtor(t, "reqs")
       \/ \E d \in Deltas : NoopCounter_add(t, "reqs", d)
       \/ NoopCounter_preinc(t, "reqs")
       \/ NoopCounter_postinc(t, "reqs")
       \/ \E d \in Deltas : NoopCounter_pluseq(t, "reqs", d)
       \/ Noop_stat(t, "reqs")
  \/ \E t \in Threads : stat_return(t)
  \/ \E t \in {mainThread} :
       \/ Noop_ctor(t, "work")
       \/ Noop_dtor(t, "work")
       \/ \E d \in CycleDeltas : NoopTimer_add(t, "work", d)
       \/ Noop_stat(t, "work")
       \/ \E k \in Kinds : Noop_printStats(t, k)
       \/ \E c \in Declared : calcStat(t, c)
       \/ calcStat_lock(t)
       \/ calcStat_return(t)
       \/ NoopStopwatch_ctor(t)
       \/ NoopStopwatch_pause(t)
       \/ NoopStopwatch_resume(t)
       \/ NoopStopwatch_restart(t)
       \/ NoopStopwatch_stop(t)
       \/ NoopStopwatch_dtor(t)
       \/ NoopScopedTimer_ctor(t)
       \/ \E path \in ExitPaths : NoopScopedTimer_dtor(t, path)

SpecNoStat == InitNoStat /\ [][NextNoStat]_vars

\* The counter and user-stat declarations come and go (static
\* initialisation and teardown, modules loaded and unloaded), in a build
\* with or without NDEBUG.  The timer directory works the same way.
InitDirectory ==
  \E nd \in BOOLEAN : Boot([DefaultConfig EXCEPT !.NDEBUG = nd], 0, 20, 10, Declared)

NextDirectory ==
  \E t \in Threads :
    \/ \E o \in Objs \ {"work"} : \E n \in NamesFor(o) : ctor_lock(t, o, n)
    \/ ctor_emplace(t)
    \/ \E o \in Objs \ {"work"} : dtor_lock(t, o)
    \/ dtor_erase(t)

SpecDirectory == InitDirectory /\ [][NextDirectory]_vars

\* The step a thread takes next inside a call it has begun, waiting for no
\* mutex.
Continue(t) ==
  \/ reg_insert(t)
  \/ dereg_fold(t)
  \/ dereg_erase(t)
  \/ calcStat_iter(t)
  \/ calcStat_return(t)
  \/ ctor_emplace(t)
  \/ dtor_erase(t)
  \/ printStats_next(t)
  \/ printStats_skip(t)
  \/ printStats_fault(t)
  \/ printStats_row(t)
  \/ printStats_end(t)

\* The main thread prints the counter report again and again while the
\* other threads count on COUNTER(reqs) and exit and a second counter
\* category is declared and destroyed.
NextReport ==
  \/ \E t \in Threads \ {mainThread} :
       \/ reg_lock(t, "reqs")
       \/ \E d \in Deltas : Counter_add(t, "reqs", d)
       \/ dereg_lock(t, "reqs")
       \/ ctor_lock(t, "reqs_b", NameOf("reqs_b"))
       \/ dtor_lock(t, "reqs_b")
  \/ printStats_begin(mainThread, "counter")
  \/ \E t \in Threads :
       \/ calcStat_lock(t)
       \/ Continue(t)

SpecReport == Init /\ [][NextReport]_vars

\* The calls of that program that take a mutex, under a fair scheduler: a
\* thread inside a call takes its next step, and a thread waiting for a
\* mutex that is released again and again gets it.
NextLive ==
  \/ \E t \in Threads \ {mainThread} :
       \/ reg_lock(t, "reqs")
       \/ dereg_lock(t, "reqs")
       \/ ctor_lock(t, "reqs_b", NameOf("reqs_b"))
       \/ dtor_lock(t, "reqs_b")
  \/ printStats_begin(mainThread, "counter")
  \/ \E t \in Threads :
       \/ calcStat_lock(t)
       \/ Continue(t)

SpecLive ==
  /\ Init /\ [][NextLive]_vars
  /\ \A t \in Threads : WF_vars(Continue(t)) /\ SF_vars(calcStat_lock(t))

\* What calibration can be given: TSC_FREQ_GHZ undefined or defined as a
\* positive, zero or negative constant, and a measurement whose cycle
\* counter advanced or stood still over a clock interval that is positive,
\* or negative when the clock was set back during the sleep.
Overrides == {<<>>, <<2, 1>>, <<0, 1>>, <<0 - 1, 1>>}
Measurements == {<<0, 20, 10>>, <<5, 5, 10>>, <<0, 20, 0 - 10>>}

InitCalib ==
  \E f \in Overrides : \E m \in Measurements :
    Boot([DefaultConfig EXCEPT !.TSC_FREQ_GHZ = f], m[1], m[2], m[3], Declared)

\* One thread times on TIMER(work) and prints the timer report.
NextCalib ==
  \/ Registry(mainThread, "work")
  \/ \E d \in CycleDeltas : Timer_add(mainThread, "work", d)
  \/ Timer_add_finish(mainThread)
  \/ printStats_begin(mainThread, "timer")
  \/ printStats_next(mainThread)
  \/ printStats_row(mainThread)
  \/ printStats_end(mainThread)

SpecCalib == InitCalib /\ [][NextCalib]_vars

\* ======================================================================
\* Properties
\* ======================================================================

\* The retired aggregate folded with the current value of every accumulator
\* of the live set, in the order calcStat would fold them.
RECURSIVE FoldOver(_, _, _)
FoldOver(c, set, prev) ==
  IF set = {} THEN prev
  ELSE LET i == CHOOSE x \in set : TRUE
       IN FoldOver(c, set \ {i}, aggregate(KindOf(c), acc[c][i], prev))

FoldLive(c) == FoldOver(c, instances[c], agg[c])

\* No thread is inside reg or dereg on category c.
NoCritical(c) ==
  \A t \in Threads :
    ~(cur[t] = c /\ pc[t] \in {"reg_insert", "dereg_fold", "dereg_erase"})

OthersExited(t) == \A u \in Threads \ {t} : pc[u] = "exited"

\* C1: a calcStat on the counter that runs after every other thread has
\* exited returns exactly the sum of all adds, whether the contributions
\* were retired by exited threads or sit in the caller's own registered
\* accumulator.
C1_ExactTotal ==
  \A t \in Threads :
    (pc[t] = "calc_done" /\ quiet[t] /\ OthersExited(t))
      => nagg[t] = issued["reqs"]

\* An exited thread's adds and the live caller's own adds, all returned.
C1_Witness ==
  \E t \in Threads :
    /\ pc[t] = "calc_done" /\ quiet[t] /\ OthersExited(t)
    /\ life["reqs"][t] = "alive"
    /\ acc["reqs"][t].cnt >= 1
    /\ agg["reqs"] >= 1
    /\ nagg[t] = MaxAdds

\* C2: whenever no thread is inside a register/deregister critical section,
\* the retired aggregate folded with the live accumulators equals the sum of
\* all add deltas since process start.
C2_Conservation ==
  \A c \in {"reqs"} : NoCritical(c) => FoldLive(c) = issued[c]

\* Part of the total is retired, part is live.
C2_Witness ==
  /\ NoCritical("reqs")
  /\ agg["reqs"] >= 1
  /\ \E t \in instances["reqs"] : acc["reqs"][t].cnt >= 1
  /\ \E t \in Threads : life["reqs"][t] = "dead"

\* C3: when no add runs during a calcStat, its result is the whole total: a
\* concurrent deregister's value is included (through agg or through the
\* live set), never lost.
C3_DeregNeverLost ==
  \A t \in Threads :
    (pc[t] = "calc_done" /\ startTotal[t] = issued["reqs"])
      => nagg[t] = issued["reqs"]

\* C4: no double count.  Each accumulator is folded into agg at most once and
\* exactly once by the time it is destroyed; outside the registry lock no
\* accumulator is both folded and in the live set; and no calcStat result
\* exceeds the adds issued so far.
C4_NoDoubleCount ==
  /\ \A t \in Threads :
       /\ nfold["reqs"][t] <= 1
       /\ life["reqs"][t] = "dead" => nfold["reqs"][t] = 1
       /\ mtx["reqs"] = NoThread =>
            ~(nfold["reqs"][t] >= 1 /\ t \in instances["reqs"])
  /\ \A t \in Threads : pc[t] = "calc_done" => nagg[t] <= issued["reqs"]

\* A calcStat returned a positive total while one accumulator was retired
\* and another is live.
C4_Witness ==
  \E t, u, v \in Threads :
    /\ pc[t] = "calc_done" /\ nagg[t] >= 2
    /\ nfold["reqs"][u] = 1 /\ life["reqs"][u] = "dead"
    /\ v \in instances["reqs"] /\ acc["reqs"][v].cnt >= 1
    /\ mtx["reqs"] = NoThread

\* C5: a calcStat that runs while a timer add is in progress never folds in
\* a half-written (cnt, cycles) pair: the aggregate holds no cycles of an
\* add whose count is missing.  Every add brings at most MaxDelta cycles, so
\* (with nothing retired yet) cycles beyond cnt * MaxDelta come from an add
\* that is not counted.
C5_NoTornPair ==
  \A t \in Threads :
    (pc[t] = "calc_done" /\ \A u \in Threads : nfold["work"][u] = 0)
      => nagg[t].cycles <= nagg[t].cnt * MaxDelta

\* C6: the timer report never divides by zero: a row with cnt = 0 shows the
\* averages as "N/A"; a row with cnt > 0 shows cycles / cnt.
C6_ReportAverages ==
  \A t \in Threads :
    row[t].name = "work" =>
      LET cycles == row[t].tot_nanos[1] \div kFreqGhz[2] IN
      /\ row[t].cnt = 0 =>
           /\ row[t].avg_cycles.tag = "N/A"
           /\ row[t].avg_nanos.tag = "N/A"
      /\ row[t].cnt > 0 =>
           /\ row[t].avg_cycles.tag = "value"
           /\ row[t].avg_cycles.val = cycles \div row[t].cnt
           /\ row[t].avg_nanos.tag = "value"
           /\ row[t].avg_nanos.val[2] # 0

\* C7: once quiescent, the timer aggregate's cnt is the number of add calls,
\* its cycles the sum of their deltas, and avgCycles is cycles / cnt by
\* integer division.
C7_TimerTotals ==
  \A t \in Threads :
    (pc[t] = "calc_done" /\ quiet[t]) =>
      /\ nagg[t].cnt = issued["work"].cnt
      /\ nagg[t].cycles = issued["work"].cycles
      /\ nagg[t].cnt > 0 =>
           getAvgCycles(nagg[t]) =
             [tag |-> "value",
              val |-> issued["work"].cycles \div issued["work"].cnt]

\* Two adds, one of them retired, and an average cut by the division.
C7_Witness ==
  \E t \in Threads :
    /\ pc[t] = "calc_done" /\ quiet[t]
    /\ nagg[t].cnt = MaxAdds
    /\ nagg[t].cycles = MaxDelta + 1
    /\ getAvgCycles(nagg[t]).val * nagg[t].cnt < nagg[t].cycles
    /\ agg["work"].cnt >= 1
    /\ instances["work"] # {}

\* The step in which thread t calls stop() on its plain stopwatch.
\* C8 (as claimed): pause() adds (cycle count - start mark) to the running
\* total and leaves the timer alone; stop() is pause(), then one
\* add(running total), then running total = 0; so restart() followed by
\* stop() with no pause in between commits exactly (now - start mark).
C8_PauseStep(t) ==
  Stopwatch_pause(t) =>
    /\ sw'[t] = [st |-> sw[t].st, agg |-> sw[t].agg + (tsc - sw[t].st)]
    /\ acc' = acc
    /\ issued' = issued

C8_StopStep(t) ==
  /\ Stopwatch_stop(t) => dc'[t] = sw[t].agg + (tsc - sw[t].st)
  /\ (stop_finish(t) /\ swKind[t] = "plain") =>
       /\ acc'[SwTimer][t] = [cycles |-> stopAcc0[t].cycles + dc[t],
                               cnt |-> stopAcc0[t].cnt + 1]
       /\ sw'[t].agg = 0

C8_AsClaimed ==
  [][\A t \in Threads :
       /\ C8_PauseStep(t)
       /\ C8_StopStep(t)
       /\ (Stopwatch_stop(t) /\ lastCall[t] = "restart") =>
            dc'[t] = tsc - sw[t].st]_vars

\* C8 (amended): as claimed for pause() and stop(); restart() followed by
\* stop() with no pause in between commits the running total left at the
\* restart plus (now - start mark), which is exactly (now - start mark) >= 0
\* when that running total is zero.
C8_StopCommits ==
  [][\A t \in Threads :
       /\ C8_PauseStep(t)
       /\ C8_StopStep(t)
       /\ (Stopwatch_stop(t) /\ lastCall[t] = "restart") =>
            /\ dc'[t] = sw[t].agg + (tsc - sw[t].st)
            /\ sw[t].agg = 0 => (dc'[t] = tsc - sw[t].st /\ dc'[t] >= 0)]_vars

\* A stop() right after a restart(), committing cycles left by an earlier
\* pause as well as the elapsed ones.
C8_Witness ==
  \E t \in Threads :
    /\ pc[t] = "stop_add" /\ swKind[t] = "plain" /\ lastCall[t] = "restart"
    /\ sw[t].agg > tsc - sw[t].st
    /\ tsc - sw[t].st >= 1
    /\ dc[t] = sw[t].agg

\* C9: a ScopedTimer commits exactly once: the timer's cnt is unchanged while
\* the scope runs and is one more than at construction when the destructor
\* has ended, whatever the exit path.
C9_ScopedCommitsOnce ==
  \A t \in Threads :
    LET cnt == acc[SwTimer][t].cnt IN
    /\ (swKind[t] = "scoped" /\ pc[t] = "idle") => cnt = scopeCnt0[t]
    /\ (swKind[t] = "scoped" /\ pc[t] = "stop_add") =>
         cnt = scopeCnt0[t] + (IF "cnt" \in pend[t] THEN 0 ELSE 1)
    /\ (swKind[t] = "none" /\ lastCall[t] \in ExitPaths) =>
         cnt = scopeCnt0[t] + 1

\* A second scope on the same timer was left by the error path.
C9_Witness ==
  \E t \in Threads :
    /\ swKind[t] = "none" /\ pc[t] = "idle" /\ lastCall[t] = "error"
    /\ scopeCnt0[t] >= 1
    /\ acc[SwTimer][t].cnt = scopeCnt0[t] + 1

\* A step of thread t that is one of the hot-path operations.
HotPath(t) ==
  \/ \E d \in Deltas : Counter_add(t, "reqs", d)
  \/ Counter_preinc(t, "reqs")
  \/ Counter_postinc(t, "reqs")
  \/ \E d \in Deltas : Counter_pluseq(t, "reqs", d)
  \/ \E d \in CycleDeltas : Timer_add(t, SwTimer, d)
  \/ Timer_add_finish(t)
  \/ Stopwatch_pause(t)
  \/ Stopwatch_resume(t)
  \/ Stopwatch_restart(t)

HotPathFrame(t) ==
  /\ UNCHANGED <<mtx, gMtx, instances, agg, stats, life>>
  /\ \A c \in Cats : mtx[c] # t
  /\ \A k \in Kinds : gMtx[k] # t
  /\ \A u \in Threads \ {t} :
       /\ \A c \in Cats : acc'[c][u] = acc[c][u]
       /\ sw'[u] = sw[u]

\* C10: the hot-path operations (counter add / ++ / +=, timer add, stopwatch
\* pause / resume / restart) take neither mutex and leave the live set, the
\* retired aggregate, the directory and every other thread's accumulator and
\* stopwatch unchanged.
C10_HotPathFrame ==
  [][\A t \in Threads : HotPathFrame(t) \/ ~HotPath(t)]_vars

\* Hot-path calls have run on two threads' registered accumulators and on a
\* paused stopwatch.
C10_Witness ==
  \E t, u \in Threads :
    /\ t # u
    /\ t \in instances["reqs"] /\ acc["reqs"][t].cnt >= 1
    /\ u \in instances[SwTimer] /\ acc[SwTimer][u].cnt >= 1
    /\ swKind[u] = "plain" /\ lastCall[u] = "pause" /\ sw[u].agg >= 1

\* C11: the registry reads an accumulator only under the registry mutex and
\* only while the accumulator is in the live set and not yet destroyed:
\* every instance calcStat has still to fold, and the instance a dereg is
\* folding, is alive and registered, and the reader holds the mutex.
C11_ReadsOnlyLive ==
  /\ \A c \in Cats : \A i \in instances[c] : life[c][i] = "alive"
  /\ \A t \in Threads :
       /\ pc[t] = "calc_iter" =>
            /\ mtx[cur[t]] = t
            /\ todo[t] \subseteq instances[cur[t]]
            /\ \A i \in todo[t] : life[cur[t]][i] = "alive"
       /\ pc[t] \in {"dereg_fold", "dereg_erase"} =>
            /\ mtx[cur[t]] = t
            /\ t \in instances[cur[t]]
            /\ life[cur[t]][t] = "alive"

\* A calcStat is about to fold a live accumulator after another thread has
\* exited and its accumulator is gone.
C11_Witness ==
  \E t, u \in Threads :
    /\ pc[t] = "calc_iter" /\ t \in todo[t]
    /\ life["reqs"][u] = "dead" /\ acc["reqs"][u].cnt >= 1
    /\ u \notin instances["reqs"]

\* C12: in the NO_STAT build no accumulator or stopwatch operation changes
\* any state, no accumulator is ever registered, no category's aggregate is
\* ever populated, and calcStat() and stat() return the zero value.
C12_DisabledIsInert ==
  config.NO_STAT =>
    /\ \A c \in Cats :
         /\ instances[c] = {}
         /\ agg[c] = ZeroAgg(KindOf(c))
         /\ \A t \in Threads : acc[c][t] = NewAcc(KindOf(c))
    /\ \A t \in Threads :
         /\ sw[t] = NoStopwatch
         /\ pc[t] = "calc_done" => nagg[t] = ZeroAgg(KindOf(cur[t]))

\* Counter and timer adds were issued, a stopwatch was stopped, and a total
\* is being returned.
C12_Witness ==
  /\ config.NO_STAT
  /\ issued["reqs"] >= 1 /\ issued["work"].cnt >= 1 /\ issued["work"].cycles >= 1
  /\ \E t \in Threads :
       /\ pc[t] = "calc_done" /\ cur[t] = "work"
       /\ swKind[t] = "plain" /\ lastCall[t] = "stop"

\* The objects directory k holds.
Stored(k) == {stats[k][n] : n \in DOMAIN stats[k]}

\* C13: whenever no constructor or destructor is inside a directory, the
\* directory holds an entry for exactly the objects of its kind that are
\* alive, two same-named categories included.
C13_DirectoryIsTheLiveSet ==
  \A k \in DirKinds :
    gMtx[k] = NoThread =>
      Stored(k) = {o \in Objs : ObjKind(o) = k /\ olife[o] = "alive"}

\* C16: a declaration given a null or empty name is aborted and never
\* inserted: no directory has a null or empty key, and no object with such
\* a name is alive.
C16_InvalidNameRejected ==
  /\ \A k \in DirKinds : \A n \in DOMAIN stats[k] : n \notin {NullName, EmptyName}
  /\ \A o \in Objs : olife[o] = "alive" => oname[o] \notin {NullName, EmptyName}

\* C17: when two categories of one kind are alive under the
\* same name, the directory's entry for that name refers to the one
\* constructed last.
C17_LastRegisteredWins ==
  \A a, b \in Objs :
    ( /\ a # b /\ ObjKind(a) = ObjKind(b)
      /\ olife[a] = "alive" /\ olife[b] = "alive"
      /\ Text(oname[a]) = Text(oname[b])
      /\ gMtx[ObjKind(b)] = NoThread
      /\ newest[ObjKind(b)] = b )
    => /\ oname[b] \in DOMAIN stats[ObjKind(b)]
       /\ stats[ObjKind(b)][oname[b]] = b

\* Where a thread is between calls, or after its exit or the process's end.
AtRest == {"idle", "exiting", "exited", "aborted"}

\* C14: no thread ever holds a registry mutex and a directory mutex at the
\* same time, and under fair scheduling every call that has begun (register,
\* deregister, calcStat, category construction and destruction, a report
\* pass) comes to its end and every mutex that is held is released again.
C14_EveryCallCompletes ==
  /\ [](\A t \in Threads :
          ~((\E c \in Cats : mtx[c] = t) /\ (\E k \in DirKinds : gMtx[k] = t)))
  /\ \A t \in Threads : (pc[t] \notin AtRest) ~> (pc[t] \in AtRest)
  /\ \A c \in Cats : (mtx[c] # NoThread) ~> (mtx[c] = NoThread)
  /\ \A k \in DirKinds : (gMtx[k] # NoThread) ~> (gMtx[k] = NoThread)

\* A report pass waits in calcStat for the registry mutex that a
\* deregistering thread holds, after a category has been declared and
\* destroyed.
C14_Witness ==
  \E t, u \in Threads :
    /\ pc[t] = "calc_lock" /\ caller[t] = "print"
    /\ mtx[cur[t]] = u /\ pc[u] \in {"dereg_fold", "dereg_erase"}
    /\ olife["reqs_b"] = "dead"

\* C15: a calibrated frequency that is zero or negative is a fatal error at
\* startup, so no timer row's nanoseconds are ever computed with a
\* frequency that is not positive.
C15_FrequencyGuarded ==
  \A t \in Threads :
    (row[t].name \in Cats /\ KindOf(row[t].name) = "timer") =>
      /\ kFreqGhz[1] * kFreqGhz[2] > 0
      /\ row[t].tot_nanos[2] # 0

\* The calls after which a stopwatch is running.
Starts == {"ctor", "resume", "restart"}

\* C18: the cycles stop() commits are the total length of the intervals in
\* which the stopwatch was running: a pause() or stop() of a running
\* stopwatch adds the interval since its start mark, and a pause() or stop()
\* of a stopwatch that is already paused adds nothing, so cycles that pass
\* while it is paused are never committed.
C18_PausedCyclesNotCommitted ==
  [][\A t \in Threads :
       /\ (Stopwatch_pause(t) /\ lastCall[t] \in Starts) =>
            sw'[t].agg = sw[t].agg + (tsc - sw[t].st)
       /\ (Stopwatch_stop(t) /\ lastCall[t] \in Starts) =>
            dc'[t] = sw[t].agg + (tsc - sw[t].st)
       /\ (Stopwatch_pause(t) /\ lastCall[t] = "pause") =>
            sw'[t].agg = sw[t].agg
       /\ (Stopwatch_stop(t) /\ lastCall[t] = "pause") =>
            dc'[t] = sw[t].agg]_vars

\* Thread t is inside the loop of a report pass over directory k.
Iterating(t, k) ==
  \/ /\ pc[t] = "print_next"
     /\ ptodo[t] # <<>>
     /\ ObjKind(Head(ptodo[t])[2]) = k
  \/ /\ pc[t] \in {"calc_lock", "calc_iter", "calc_done"}
     /\ caller[t] = "print"
     /\ ObjKind(cur[t]) = k

\* C19: a report pass over a directory excludes the inserts and erases on
\* it: no constructor or destructor changes a directory while a thread
\* is inside a report's loop over it, and the loop calls calcStat only on
\* an entry whose category is alive.
C19_ReportExcludesWrites ==
  [][/\ \A k \in DirKinds :
          stats'[k] # stats[k] => \A t \in Threads : ~Iterating(t, k)
     /\ \A t \in Threads :
          printStats_next(t) => olife[Head(ptodo[t])[2]] = "alive"]_vars

\* C20: the totals one reporting thread gets from successive calcStat calls
\* on a counter never decrease: the total a report pass is about to log is
\* at least the total the thread's previous pass logged for that counter.
C20_ReportsNeverDecrease ==
  \A t \in Threads :
    (pc[t] = "calc_done" /\ caller[t] = "print" /\ KindOf(cur[t]) = "counter")
      => nagg[t] >= reported[t][cur[t]]

====
